---- MODULE Spec2Model ----
(***************************************************************************)
(* Topic-focus surface of crowguide: block document + markdown codec,      *)
(* debounced autosave, pomodoro session timer and the persistence gateway  *)
(* (src/unnamed/part_000 = components/topic-focus, src/lib/database.ts,    *)
(* src/app/page.tsx).                                                      *)
(*                                                                         *)
(* Text is a sequence of one-character tokens; "NL" is the newline and     *)
(* "BT" the backtick.                                                      *)
(* React closures are explicit: a timer or interval callback carries the   *)
(* (blocks, completed) values of the render that created it.               *)
(***************************************************************************)
EXTENDS Integers, Sequences, FiniteSets, Bags, TLC

\* ------------------------------------------------------------------ bounds
\* at most this many saves (performAutoSave / autoSaveProgress / handleSave)
\* are in flight together
MaxInFlight == 1
\* the same, in the specifications where saves of two paths overlap
MaxOverlap == 2
\* at most this many work-completion flushes are started in one behaviour
MaxFlushes == 1
\* at most this many loadUserProgress calls of the surface are in flight
MaxLoads == 1
\* single interval firings are explored for the last MaxCountdown seconds
MaxCountdown == 1
\* a Document holds at most this many blocks
MaxBlocks == 3
\* at most this many progress refreshes of the parent page are in flight
MaxRefreshes == 1
\* stored notes are every text of at most this many characters ...
MaxRawLen == 2
\* ... and every text of at most this many marker lines
MaxLines == 2
\* at most this many status-revert timeouts of performAutoSave are pending
MaxStatusTimers == 1

\* --------------------------------------------------------- program constants
SecondsPerMinute == 60
DefaultWorkMinutes == 25
DefaultBreakMinutes == 5

\* the calendar day of the behaviour (new Date().toISOString().split("T")[0]);
\* dates are day numbers, NoDate is a NULL last_study_date
Today == 2
NoDate == 0

\* ------------------------------------------------------------- text helpers
SpaceChars == {" ", "NL"}
DigitChars == {"1", "2"}

Drop(s, n) == SubSeq(s, n + 1, Len(s))

StartsWith(s, p) == Len(s) >= Len(p) /\ SubSeq(s, 1, Len(p)) = p

RECURSIVE TrimStart(_)
TrimStart(s) ==
  IF s # <<>> /\ Head(s) \in SpaceChars THEN TrimStart(Tail(s)) ELSE s

RECURSIVE TrimEnd(_)
TrimEnd(s) ==
  IF s # <<>> /\ s[Len(s)] \in SpaceChars THEN TrimEnd(SubSeq(s, 1, Len(s) - 1)) ELSE s

\* String.prototype.trim
Trim(s) == TrimEnd(TrimStart(s))

\* String.prototype.split("\n"): always at least one line
RECURSIVE Split(_)
Split(s) ==
  IF \A i \in 1..Len(s) : s[i] # "NL" THEN <<s>>
  ELSE LET k == CHOOSE i \in 1..Len(s) : s[i] = "NL" /\ \A j \in 1..(i - 1) : s[j] # "NL"
       IN  <<SubSeq(s, 1, k - 1)>> \o Split(Drop(s, k))

\* Array.prototype.join("\n")
RECURSIVE Join(_)
Join(lines) ==
  IF lines = <<>> THEN <<>>
  ELSE IF Len(lines) = 1 THEN lines[1]
  ELSE lines[1] \o <<"NL">> \o Join(Tail(lines))

\* number of leading digits of s
RECURSIVE DigitRun(_)
DigitRun(s) ==
  IF s # <<>> /\ Head(s) \in DigitChars THEN 1 + DigitRun(Tail(s)) ELSE 0

\* length of the match of /^\d+\. / at the start of s, 0 when it does not match
NumberedPrefix(s) ==
  LET d == DigitRun(s)
  IN  IF d > 0 /\ StartsWith(Drop(s, d), <<".", " ">>) THEN d + 2 ELSE 0

\* ------------------------------------------------------------------- blocks

Min(S) == CHOOSE x \in S : \A y \in S : x <= y

\* the handles Math.random().toString(36).substr(2, 9) can return: whatever
\* the generator draws, with no look at the handles already given out
RandomIds == 1..(MaxBlocks + 1)

\* generateId when the draw does not collide: a random 9-character handle,
\* taken as the least handle that no block held anywhere in the state carries
generateId(used) == Min({i \in 1..(Cardinality(used) + 1) : i \notin used})

RECURSIVE FreshIds(_, _)
FreshIds(used, n) ==
  IF n = 0 THEN <<>>
  ELSE LET i == generateId(used) IN <<i>> \o FreshIds(used \cup {i}, n - 1)

\* the empty block with its order counted from 1
EmptyBlockFromOne(id) == [id |-> id, type |-> "text", content |-> <<>>, order |-> 1]

EmptyBlock(id) == [id |-> id, type |-> "text", content |-> <<>>, order |-> 0]

\* the loop body keeping the whole trimmed line as content, marker included
LineToBlockKeepMarker(line, id, order) ==
  LET t == Trim(line)
      type == IF StartsWith(t, <<"#", " ">>) THEN "heading1"
              ELSE IF StartsWith(t, <<"#", "#", " ">>) THEN "heading2"
              ELSE IF StartsWith(t, <<"#", "#", "#", " ">>) THEN "heading3"
              ELSE IF StartsWith(t, <<"-", " ">>) THEN "bullet"
              ELSE IF NumberedPrefix(t) > 0 THEN "numbered"
              ELSE IF StartsWith(t, <<"BT", "BT", "BT">>) THEN "code"
              ELSE "text"
  IN  [id |-> id, type |-> type, content |-> t, order |-> order]

\* the body of the for loop of markdownToBlocks for one line
LineToBlock(line, id, order) ==
  LET t == Trim(line)
  IN  IF StartsWith(t, <<"#", " ">>)
        THEN [id |-> id, type |-> "heading1", content |-> Drop(t, 2), order |-> order]
      ELSE IF StartsWith(t, <<"#", "#", " ">>)
        THEN [id |-> id, type |-> "heading2", content |-> Drop(t, 3), order |-> order]
      ELSE IF StartsWith(t, <<"#", "#", "#", " ">>)
        THEN [id |-> id, type |-> "heading3", content |-> Drop(t, 4), order |-> order]
      ELSE IF StartsWith(t, <<"-", " ">>)
        THEN [id |-> id, type |-> "bullet", content |-> Drop(t, 2), order |-> order]
      ELSE IF NumberedPrefix(t) > 0
        THEN [id |-> id, type |-> "numbered", content |-> Drop(t, NumberedPrefix(t)), order |-> order]
      ELSE IF StartsWith(t, <<"BT", "BT", "BT">>)
        THEN [id |-> id, type |-> "code", content |-> Drop(t, 3), order |-> order]
      ELSE [id |-> id, type |-> "text", content |-> t, order |-> order]

markdownToBlocks(markdown, used) ==
  IF Trim(markdown) = <<>> THEN <<EmptyBlock(generateId(used))>>
  ELSE LET lines == Split(markdown)
           ids   == FreshIds(used, Len(lines))
       IN  [i \in 1..Len(lines) |-> LineToBlock(lines[i], ids[i], i - 1)]

\* Array.prototype.sort((a, b) => a.order - b.order): stable insertion
RECURSIVE InsertByOrder(_, _)
InsertByOrder(sorted, b) ==
  IF sorted = <<>> THEN <<b>>
  ELSE IF b.order < Head(sorted).order THEN <<b>> \o sorted
  ELSE <<Head(sorted)>> \o InsertByOrder(Tail(sorted), b)

RECURSIVE SortByOrder(_)
SortByOrder(bs) ==
  IF bs = <<>> THEN <<>>
  ELSE InsertByOrder(SortByOrder(SubSeq(bs, 1, Len(bs) - 1)), bs[Len(bs)])

\* a block serialized as its content alone, without the marker of its type
BlockToLinePlain(b) == b.content

BlockToLine(b) ==
  CASE b.type = "heading1" -> <<"#", " ">> \o b.content
    [] b.type = "heading2" -> <<"#", "#", " ">> \o b.content
    [] b.type = "heading3" -> <<"#", "#", "#", " ">> \o b.content
    [] b.type = "bullet"   -> <<"-", " ">> \o b.content
    [] b.type = "numbered" -> <<"1", ".", " ">> \o b.content
    [] b.type = "code"     -> <<"BT", "BT", "BT">> \o b.content
    [] OTHER               -> b.content

blocksToMarkdown(bs) ==
  LET s == SortByOrder(bs) IN Join([i \in 1..Len(s) |-> BlockToLine(s[i])])

\* the blocks returned as they are, their order values not reassigned
ReorderNothing(bs) == bs

\* newBlocks.map((block, index) => ({ ...block, order: index }))
Reorder(bs) == [i \in 1..Len(bs) |-> [bs[i] EXCEPT !.order = i - 1]]

\* blocks.findIndex((block) => block.id === id), 0-based, -1 when absent
FindIndex(bs, id) ==
  IF \E i \in 1..Len(bs) : bs[i].id = id
  THEN (CHOOSE i \in 1..Len(bs) : bs[i].id = id /\ \A j \in 1..(i - 1) : bs[j].id # id) - 1
  ELSE -1

IdsOf(bs) == {bs[i].id : i \in 1..Len(bs)}

LiveIds(bss) == UNION {IdsOf(bs) : bs \in bss}

\* ------------------------------------------------------------- block editing
\* updateBlock
updateBlock(bs, id, content) ==
  [i \in 1..Len(bs) |-> IF bs[i].id = id THEN [bs[i] EXCEPT !.content = content] ELSE bs[i]]

\* changeBlockType emptying the content of the block as it changes its type
changeBlockTypeClearsContent(bs, id, newType) ==
  [i \in 1..Len(bs) |->
     IF bs[i].id = id THEN [bs[i] EXCEPT !.type = newType, !.content = <<>>] ELSE bs[i]]

\* changeBlockType
changeBlockType(bs, id, newType) ==
  [i \in 1..Len(bs) |-> IF bs[i].id = id THEN [bs[i] EXCEPT !.type = newType] ELSE bs[i]]

\* addNewBlock pushing the new block to the end of the array
addNewBlockAtEnd(bs, afterId, type, newId) ==
  Reorder(Append(bs, [id |-> newId, type |-> type, content |-> <<>>, order |-> Len(bs)]))

\* addNewBlock: splice(afterIndex + 1, 0, newBlock), then reorder
addNewBlock(bs, afterId, type, newId) ==
  LET afterIndex == FindIndex(bs, afterId)
      newBlock   == [id |-> newId, type |-> type, content |-> <<>>, order |-> afterIndex + 1]
  IN  Reorder(SubSeq(bs, 1, afterIndex + 1) \o <<newBlock>> \o SubSeq(bs, afterIndex + 2, Len(bs)))

\* deleteBlock without its blocks.length <= 1 test
deleteBlockUnguarded(bs, id) == Reorder(SelectSeq(bs, LAMBDA b : b.id # id))

\* deleteBlock
deleteBlock(bs, id) ==
  IF Len(bs) <= 1 THEN bs
  ELSE Reorder(SelectSeq(bs, LAMBDA b : b.id # id))

\* deleteBlock: the block its timeout picks for focus, blocks[targetIndex] of
\* the array of the render in which deleteBlock was called
deleteFocusTarget(bs, id) ==
  LET blockIndex  == FindIndex(bs, id)
      targetIndex == IF blockIndex > 0 THEN blockIndex - 1 ELSE 0
  IN  bs[targetIndex + 1]

\* ---------------------------------------------------------------------- state
VARIABLES
  isOpen,              \* HomePage: !!selectedTopic (topic is non-null exactly then)
  userProgress,        \* HomePage: cached user_progress row of the topic
  refreshes,           \* HomePage: loadUserProgress calls in flight
  loading,             \* TopicFocus state
  loads,               \* loadUserProgress calls in flight, each with its captured props
  blocks,              \* the Document
  completed,           \* the completion flag
  lastSavedBlocks,     \* lastSavedBlocksRef.current
  lastSavedCompleted,  \* lastSavedCompletedRef.current
  saving,              \* handleSave in progress
  autoSaveTimeout,     \* pending debounce timer with the closure of its performAutoSave
  timers,              \* timeouts of the auto-save effect neither fired nor cleared
  autoSaveStatus,      \* "idle", "saving", "saved" or "error"
  statusTimers,        \* pending setTimeout(() => setAutoSaveStatus("idle")) of performAutoSave
  pomodoroTime, isRunning, isBreak, workMinutes, breakMinutes,
  studyTime, completedSessions,
  intervalClosure,     \* (blocks, completed) seen by the autoSaveProgress of the interval
  saves,               \* the saves in flight, a bag: pending promises have no order
  progress,            \* durable user_progress row of (user, topic)
  stats,               \* durable user_stats row of the user
  currentUser,         \* supabase.auth.getUser() answers a user (TRUE) or null (FALSE)
  \* ---- history, read by the properties only
  failed,              \* a save has failed
  editedInFlight,      \* the latest edit was made while a save was in flight
  closeWrites,         \* progress writes since the first dirty close request of the
                       \* session: -1 no such request, 0, 1, or 2 for two and more
  flushes,             \* work-completion flushes started
  credited,            \* study minutes of the flushes that have returned without error
  progress0, stats0    \* the durable rows at the start

vars == <<isOpen, userProgress, refreshes, loading, loads, blocks, completed,
          lastSavedBlocks, lastSavedCompleted, saving, autoSaveTimeout, timers,
          autoSaveStatus, statusTimers,
          pomodoroTime, isRunning, isBreak, workMinutes, breakMinutes,
          studyTime, completedSessions, intervalClosure, saves, progress, stats,
          currentUser,
          failed, editedInFlight, closeWrites, flushes, credited, progress0, stats0>>

surfaceVars == <<loading, loads, blocks, completed, lastSavedBlocks, lastSavedCompleted>>
timerVars   == <<pomodoroTime, isRunning, isBreak, workMinutes, breakMinutes,
                 studyTime, completedSessions, intervalClosure>>
storeVars   == <<progress, stats>>
parentVars  == <<userProgress, refreshes>>
startVars   == <<progress0, stats0>>
authVars    == <<currentUser>>

\* ------------------------------------------------------------- value shapes
NoRow   == [exists |-> FALSE, notes |-> <<>>, completed |-> FALSE, study_time |-> 0]
NoStats == [exists |-> FALSE, total_study_time |-> 0, current_streak |-> 0,
            last_study_date |-> NoDate]
NoClosure == [set |-> FALSE, blocks |-> <<>>, completed |-> FALSE]
Closure(bs, c) == [set |-> TRUE, blocks |-> bs, completed |-> c]
NoRead == [exists |-> FALSE, study_time |-> 0]

\* a save in flight: the closure values it writes (blocks, completed, delta),
\* its position (pc), what it has read from the gateway (existing, cur,
\* sexisting), and for the properties the in-memory pair at its start (live*)
NewSave(kind, bs, c, delta, liveBs, liveC) ==
  [kind |-> kind, pc |-> "read", blocks |-> bs, completed |-> c, delta |-> delta,
   existing |-> NoRead, cur |-> NoStats, sexisting |-> NoStats,
   liveBlocks |-> liveBs, liveCompleted |-> liveC]

\* a user with a row for the topic, who last studied on the given day
ReturningUser(day) ==
  [progress |-> [exists |-> TRUE, notes |-> <<"a">>, completed |-> FALSE, study_time |-> 10],
   stats    |-> [exists |-> TRUE, total_study_time |-> 50, current_streak |-> 3,
                 last_study_date |-> day]]

\* the durable rows a behaviour may start from: a new user, and a user who
\* last studied yesterday
InitStore == { [progress |-> NoRow, stats |-> NoStats], ReturningUser(Today - 1) }

\* the same, and a user who has already completed a work session today
InitStoreSameDay == InitStore \cup { ReturningUser(Today) }

\* the characters of a stored text
Chars == {"a", " ", "#", "-", "1", "2", ".", "BT", "NL"}

RawTexts == UNION {[1..n -> Chars] : n \in 0..MaxRawLen}

\* the leading markers markdownToBlocks detects, and no marker
Markers ==
  { <<>>, <<"#", " ">>, <<"#", "#", " ">>, <<"#", "#", "#", " ">>, <<"-", " ">>,
    <<"1", ".", " ">>, <<"2", ".", " ">>, <<"BT", "BT", "BT">> }

\* a marker followed by a content
MarkerLines == {m \o <<"a">> : m \in Markers}

LineTexts == {Join(ls) : ls \in UNION {[1..n -> MarkerLines] : n \in 1..MaxLines}}

\* the notes a user_progress row may hold when a behaviour starts
Texts == RawTexts \cup LineTexts

\* a returning user whose row of the topic holds any of the texts
CodecStore ==
  { [progress |-> [exists |-> TRUE, notes |-> T, completed |-> FALSE, study_time |-> 10],
     stats    |-> ReturningUser(Today - 1).stats] : T \in Texts }

\* what the user can type into a block, and pick as block type and minutes
\* (Number(e.target.value): the min attribute of a number input does not keep
\* a typed negative value from reaching onChange)
Contents     == { <<>>, <<"a">> }
TypeChoices  == { "text", "bullet" }
MinuteChoices == { -1, 1 }

\* the fields of a user_progress row that HomePage hands to TopicFocus
CacheOf(row) == [exists |-> row.exists, notes |-> row.notes, completed |-> row.completed]

\* props of TopicFocus computed by HomePage from its cache
initialNotes     == IF isOpen /\ userProgress.exists THEN userProgress.notes ELSE <<>>
initialCompleted == IF isOpen /\ userProgress.exists THEN userProgress.completed ELSE FALSE

\* ids carried by the blocks that the saves in flight hold
SaveIds ==
  LiveIds({s.blocks : s \in BagToSet(saves)} \cup {s.liveBlocks : s \in BagToSet(saves)})

\* ids carried by any block the state still holds
UsedIds ==
  SaveIds \cup LiveIds({blocks, lastSavedBlocks, autoSaveTimeout.blocks, intervalClosure.blocks})

\* hasChanges comparing the two arrays by reference instead of their JSON text:
\* the array of a render is never the array kept in the ref
HasChangesByReference(bs, c, savedBs, savedC) == TRUE

\* hasChanges of the auto-save effect, performAutoSave and handleClose
HasChanges(bs, c, savedBs, savedC) == bs # savedBs \/ c # savedC

\* the auto-save effect without its hasChanges test
AutoSaveEffectUnconditional(open, ld, bs, c, savedBs, savedC) ==
  IF open /\ ~ld THEN Closure(bs, c) ELSE NoClosure

\* the auto-save effect, run after a change of one of its dependencies: its
\* cleanup has cleared the pending timer, and it starts a new one bound to the
\* performAutoSave of this render when there are changes
AutoSaveEffect(open, ld, bs, c, savedBs, savedC) ==
  IF open /\ ~ld /\ HasChanges(bs, c, savedBs, savedC) THEN Closure(bs, c) ELSE NoClosure

\* the pending timeouts after a run of the auto-save effect that skips
\* clearTimeout: the timer of the run before stays pending beside the new one
PendingAfterNoClear(next) == timers + (IF next.set THEN 1 ELSE 0)

\* the pending timeouts after a run of the auto-save effect that leaves the
\* timer next: clearTimeout(autoSaveTimeoutRef.current) takes the timer of the
\* run before away if it has not fired, setTimeout adds the new one
PendingAfter(next) ==
  (timers - (IF autoSaveTimeout.set THEN 1 ELSE 0)) + (IF next.set THEN 1 ELSE 0)

\* the state after HomePage has mounted TopicFocus and fetched the progress
\* rows, before any topic is clicked
Mounted(stores) ==
  /\ isOpen = FALSE
  /\ \E start \in stores : progress = start.progress /\ stats = start.stats
  /\ userProgress = CacheOf(progress)
  /\ refreshes = 0
  /\ loading = FALSE
  /\ loads = <<>>
  /\ blocks = <<>>
  /\ completed = FALSE
  /\ lastSavedBlocks = <<>>
  /\ lastSavedCompleted = FALSE
  /\ saving = FALSE
  /\ autoSaveTimeout = NoClosure
  /\ timers = 0
  /\ autoSaveStatus = "idle"
  /\ statusTimers = 0
  /\ pomodoroTime = DefaultWorkMinutes * SecondsPerMinute
  /\ isRunning = FALSE
  /\ isBreak = FALSE
  /\ workMinutes = DefaultWorkMinutes
  /\ breakMinutes = DefaultBreakMinutes
  /\ studyTime = 0
  /\ completedSessions = 0
  /\ intervalClosure = NoClosure
  /\ saves = EmptyBag
  /\ currentUser = TRUE
  /\ failed = FALSE
  /\ editedInFlight = FALSE
  /\ closeWrites = -1
  /\ flushes = 0
  /\ credited = 0
  /\ progress0 = progress
  /\ stats0 = stats

Init == Mounted(InitStore)

InitSameDay == Mounted(InitStoreSameDay)

InitCodec == Mounted(CodecStore)

\* ------------------------------------------------------------------ history
histVars == <<failed, editedInFlight, closeWrites, flushes, credited>>

\* the countdown set to the minutes themselves
PhaseSecondsRaw(minutes) == minutes

\* minutes of a phase as seconds of the countdown (minutes * 60)
PhaseSeconds(minutes) == minutes * SecondsPerMinute

\* ------------------------------------------------------- open, load, refresh
\* the open effect with the timer of the opening commit left pending: the
\* auto-save effect as if loading were not among its dependencies
OpenEffectKeepsTimer(cache) ==
  /\ studyTime' = 0
  /\ completedSessions' = 0
  /\ isBreak' = FALSE
  /\ pomodoroTime' = PhaseSeconds(workMinutes)
  /\ isRunning' = FALSE
  /\ intervalClosure' = NoClosure
  /\ autoSaveStatus' = "idle"
  /\ loading' = TRUE
  /\ loads' = Append(loads, [notes     |-> IF cache.exists THEN cache.notes ELSE <<>>,
                             completed |-> IF cache.exists THEN cache.completed ELSE FALSE])
  /\ autoSaveTimeout' = AutoSaveEffect(TRUE, FALSE, blocks, completed,
                                       lastSavedBlocks, lastSavedCompleted)
  /\ timers' = PendingAfter(autoSaveTimeout')
  /\ UNCHANGED <<workMinutes, breakMinutes>>

\* the "Initialize component state" effect: session reset, then
\* loadUserProgress up to its first await (setLoading(true), getUserProgress)
OpenEffect(cache) ==
  /\ studyTime' = 0
  /\ completedSessions' = 0
  /\ isBreak' = FALSE
  /\ pomodoroTime' = PhaseSeconds(workMinutes)
  /\ isRunning' = FALSE
  /\ intervalClosure' = NoClosure
  /\ autoSaveStatus' = "idle"
  /\ loading' = TRUE
  /\ loads' = Append(loads, [notes     |-> IF cache.exists THEN cache.notes ELSE <<>>,
                             completed |-> IF cache.exists THEN cache.completed ELSE FALSE])
  \* the auto-save effect of the same commit may start a timer, and the render
  \* that follows setLoading(true) clears it
  /\ autoSaveTimeout' = NoClosure
  /\ timers' = PendingAfter(NoClosure)
  /\ UNCHANGED <<workMinutes, breakMinutes>>

\* HomePage.handleTopicClick: setSelectedTopic(topic)
OpenTopic ==
  /\ ~isOpen
  /\ Len(loads) < MaxLoads
  /\ isOpen' = TRUE
  /\ OpenEffect(userProgress)
  /\ closeWrites' = -1
  /\ editedInFlight' = FALSE
  /\ UNCHANGED <<blocks, completed, lastSavedBlocks, lastSavedCompleted, saving, saves,
                 statusTimers, flushes, credited, failed>>
  /\ UNCHANGED <<storeVars, parentVars, startVars, authVars>>

\* loadUserProgress after getUserProgress has answered
LoadReturn ==
  /\ loads # <<>>
  /\   LET found == progress.exists
           notes == IF found THEN progress.notes ELSE Head(loads).notes
           done  == IF found THEN progress.completed ELSE Head(loads).completed
           bs    == markdownToBlocks(notes, SaveIds)
       IN  /\ blocks' = bs
           /\ completed' = done
           /\ lastSavedBlocks' = bs
           /\ lastSavedCompleted' = done
  /\ loading' = FALSE
  /\ loads' = Tail(loads)
  /\ autoSaveTimeout' = NoClosure
  /\ timers' = PendingAfter(NoClosure)
  /\ editedInFlight' = FALSE
  /\ UNCHANGED <<isOpen, saving, saves, autoSaveStatus, statusTimers, closeWrites, flushes,
                 credited, failed>>
  /\ UNCHANGED <<timerVars, storeVars, parentVars, startVars, authVars>>

\* HomePage.loadUserProgress after getUserProgress has answered (started by
\* handleProgressUpdate); a changed initialNotes / initialCompleted prop gives
\* TopicFocus a new loadUserProgress and so re-runs its open effect
ParentRefreshReturn ==
  /\ refreshes > 0
  /\   LET cache == CacheOf(progress)
           propsChanged ==
             \/ (IF cache.exists THEN cache.notes ELSE <<>>) # initialNotes
             \/ (IF cache.exists THEN cache.completed ELSE FALSE) # initialCompleted
       IN  /\ userProgress' = cache
           /\ IF isOpen /\ propsChanged
              THEN /\ Len(loads) < MaxLoads
                   /\ OpenEffect(cache)
              ELSE UNCHANGED <<timerVars, loading, loads, autoSaveTimeout, timers, autoSaveStatus>>
  /\ refreshes' = refreshes - 1
  /\ UNCHANGED <<isOpen, blocks, completed, lastSavedBlocks, lastSavedCompleted, saving, saves,
                 statusTimers, editedInFlight, closeWrites, flushes, credited, failed>>
  /\ UNCHANGED <<storeVars, startVars, authVars>>

\* ------------------------------------------------------------------- edits
\* setBlocks(...) followed by the auto-save effect of the next render
SetBlocks(bs) ==
  /\ blocks' = bs
  /\ autoSaveTimeout' = AutoSaveEffect(isOpen, loading, bs, completed,
                                       lastSavedBlocks, lastSavedCompleted)
  /\ timers' = PendingAfter(autoSaveTimeout')
  /\ editedInFlight' = (saves # EmptyBag)
  /\ UNCHANGED <<isOpen, loading, loads, completed, lastSavedBlocks, lastSavedCompleted,
                 saving, saves, autoSaveStatus, statusTimers, closeWrites, flushes, credited,
                 failed>>
  /\ UNCHANGED <<timerVars, storeVars, parentVars, startVars, authVars>>

EditorShown == isOpen /\ ~loading

UpdateBlock ==
  /\ EditorShown
  /\ \E i \in 1..Len(blocks), content \in Contents :
       SetBlocks(updateBlock(blocks, blocks[i].id, content))

ChangeBlockType ==
  /\ EditorShown
  /\ \E i \in 1..Len(blocks), type \in TypeChoices :
       SetBlocks(changeBlockType(blocks, blocks[i].id, type))

AddNewBlock ==
  /\ EditorShown
  /\ Len(blocks) < MaxBlocks
  /\ \E i \in 1..Len(blocks) :
       SetBlocks(addNewBlock(blocks, blocks[i].id, "text", generateId(UsedIds)))

\* addNewBlock with generateId left to draw any handle, one in use included
AddNewBlockAnyId ==
  /\ EditorShown
  /\ Len(blocks) < MaxBlocks
  /\ \E i \in 1..Len(blocks), newId \in RandomIds :
       SetBlocks(addNewBlock(blocks, blocks[i].id, "text", newId))

DeleteBlock ==
  /\ EditorShown
  /\ Len(blocks) > 1
  /\ \E i \in 1..Len(blocks) :
       SetBlocks(deleteBlock(blocks, blocks[i].id))

\* the "Mark as completed" checkbox: setCompleted(checked)
ToggleCompleted ==
  /\ isOpen
  /\ completed' = ~completed
  /\ autoSaveTimeout' = AutoSaveEffect(isOpen, loading, blocks, ~completed,
                                       lastSavedBlocks, lastSavedCompleted)
  /\ timers' = PendingAfter(autoSaveTimeout')
  /\ editedInFlight' = (saves # EmptyBag)
  /\ UNCHANGED <<isOpen, loading, loads, blocks, lastSavedBlocks, lastSavedCompleted,
                 saving, saves, autoSaveStatus, statusTimers, closeWrites, flushes, credited,
                 failed>>
  /\ UNCHANGED <<timerVars, storeVars, parentVars, startVars, authVars>>

\* -------------------------------------------------------------------- saves
Remove(s) == saves (-) SetToBag({s})

AutoKinds  == {"debounce", "close"}
StatsKinds == {"flush", "manual"}

\* a debounce save and a work-completion flush that started from the same
\* in-memory pair
Peers(s, t) ==
  /\ {s.kind, t.kind} = {"debounce", "flush"}
  /\ s.liveBlocks = t.liveBlocks
  /\ s.liveCompleted = t.liveCompleted

\* a || b || 0 on numbers
OrNum(a, b) == IF a # 0 THEN a ELSE b

\* a save that always carries study_time: 0
StartSaveNoDelta(cap, kind, bs, c, delta) ==
  /\ BagCardinality(saves) < cap
  /\ saves' = saves (+) SetToBag({NewSave(kind, bs, c, 0, blocks, completed)})
  /\ autoSaveStatus' = IF kind \in AutoKinds THEN "saving" ELSE autoSaveStatus

\* the save begins: everything up to the first await (getCurrentUser); cap is
\* the number of saves the specification lets be in flight
StartSave(cap, kind, bs, c, delta) ==
  /\ BagCardinality(saves) < cap
  /\ saves' = saves (+) SetToBag({NewSave(kind, bs, c, delta, blocks, completed)})
  \* performAutoSave: setAutoSaveStatus("saving")
  /\ autoSaveStatus' = IF kind \in AutoKinds THEN "saving" ELSE autoSaveStatus

\* onClose(): HomePage sets selectedTopic to null; the auto-save effect of the
\* next render only runs its cleanup
OnClose ==
  /\ isOpen' = FALSE
  /\ autoSaveTimeout' = NoClosure
  /\ timers' = PendingAfter(NoClosure)

\* the save leaving with the snapshot assigned on both paths, as if
\* lastSavedBlocksRef / lastSavedCompletedRef were set in a finally block
LeaveSnapshotAlways(s, ok) ==
      /\ saves' = Remove(s)
      /\ lastSavedBlocks' = s.blocks /\ lastSavedCompleted' = s.completed
      /\ IF s.kind = "close" \/ (s.kind = "manual" /\ ok)
         THEN OnClose
         ELSE UNCHANGED <<isOpen, autoSaveTimeout, timers>>
      /\ saving' = IF s.kind = "manual" THEN FALSE ELSE saving
      /\ IF s.kind \in AutoKinds
         THEN /\ statusTimers < MaxStatusTimers
              /\ autoSaveStatus' = IF ok THEN "saved" ELSE "error"
              /\ statusTimers' = statusTimers + 1
         ELSE UNCHANGED <<autoSaveStatus, statusTimers>>
      /\ IF ok /\ s.kind \in StatsKinds
         THEN refreshes < MaxRefreshes /\ refreshes' = refreshes + 1
         ELSE UNCHANGED refreshes
      /\ UNCHANGED <<userProgress, loading, loads, blocks, completed>>
      /\ failed' = (failed \/ ~ok)
      /\ UNCHANGED editedInFlight
      /\ credited' = IF ok /\ s.kind = "flush" THEN credited + s.delta ELSE credited
      /\ UNCHANGED <<closeWrites, flushes>>
      /\ UNCHANGED <<timerVars, startVars, authVars>>

\* the save has left its try block: success path or catch
Leave(s, ok) ==
      /\ saves' = Remove(s)
      /\ IF ok
         THEN lastSavedBlocks' = s.blocks /\ lastSavedCompleted' = s.completed
         ELSE UNCHANGED <<lastSavedBlocks, lastSavedCompleted>>
      /\ IF s.kind = "close" \/ (s.kind = "manual" /\ ok)
         THEN OnClose
         ELSE UNCHANGED <<isOpen, autoSaveTimeout, timers>>
      /\ saving' = IF s.kind = "manual" THEN FALSE ELSE saving
      \* performAutoSave: setAutoSaveStatus("saved" / "error"), and the timeout
      \* that sets the status back to idle
      /\ IF s.kind \in AutoKinds
         THEN /\ statusTimers < MaxStatusTimers
              /\ autoSaveStatus' = IF ok THEN "saved" ELSE "error"
              /\ statusTimers' = statusTimers + 1
         ELSE UNCHANGED <<autoSaveStatus, statusTimers>>
      /\ IF ok /\ s.kind \in StatsKinds
         THEN refreshes < MaxRefreshes /\ refreshes' = refreshes + 1
         ELSE UNCHANGED refreshes
      /\ UNCHANGED <<userProgress, loading, loads, blocks, completed>>
      /\ failed' = (failed \/ ~ok)
      /\ UNCHANGED editedInFlight
      /\ credited' = IF ok /\ s.kind = "flush" THEN credited + s.delta ELSE credited
      /\ UNCHANGED <<closeWrites, flushes>>
      /\ UNCHANGED <<timerVars, startVars, authVars>>

\* the save moves to its next gateway call
Advance(s, t) ==
  /\ saves' = Remove(s) (+) SetToBag({t})
  /\ UNCHANGED <<isOpen, autoSaveTimeout, timers, saving, lastSavedBlocks, lastSavedCompleted,
                 loading, loads, blocks, completed, autoSaveStatus, statusTimers>>
  /\ UNCHANGED <<editedInFlight, flushes, credited, failed>>
  /\ UNCHANGED <<timerVars, parentVars, startVars, authVars>>

\* the three calls with the user found whether or not one is authenticated
ReadStepAnyUser(s) ==
  /\ s.pc = "read"
  /\ \E ok \in BOOLEAN :
       IF ok
       THEN /\ Advance(s, [s EXCEPT !.pc = "write",
                             !.existing = [exists |-> progress.exists,
                                           study_time |-> progress.study_time]])
            /\ UNCHANGED closeWrites
       ELSE Leave(s, FALSE)
  /\ UNCHANGED storeVars

\* getCurrentUser answers (null or an error throws), ensureUserExists answers
\* (its errors are swallowed, its result is not used), and the select of the
\* existing row in updateProgress answers
ReadStep(s) ==
  /\ s.pc = "read"
  /\ \E ok \in BOOLEAN :
       IF currentUser /\ ok
       THEN /\ Advance(s, [s EXCEPT !.pc = "write",
                             !.existing = [exists |-> progress.exists,
                                           study_time |-> progress.study_time]])
            /\ UNCHANGED closeWrites
       ELSE Leave(s, FALSE)
  /\ UNCHANGED storeVars

\* the session of the user ends (expired or revoked): getUser answers null
\* from now on
SessionExpires ==
  /\ currentUser
  /\ currentUser' = FALSE
  /\ UNCHANGED <<isOpen, saving, saves, autoSaveTimeout, timers, autoSaveStatus, statusTimers>>
  /\ UNCHANGED histVars
  /\ UNCHANGED <<surfaceVars, timerVars, storeVars, parentVars, startVars>>

\* progressData of updateProgress
ProgressData(s) ==
  [exists |-> TRUE, notes |-> blocksToMarkdown(s.blocks), completed |-> s.completed,
   study_time |-> s.existing.study_time + s.delta]

\* updateProgress: the update (row seen) or insert (no row seen) is applied;
\* an insert fails on UNIQUE(user_id, topic_id) when a row has appeared
WriteStep(s) ==
  /\ s.pc = "write"
  /\ \E ok \in BOOLEAN :
       IF ok /\ (s.existing.exists \/ ~progress.exists)
       THEN /\ progress' = ProgressData(s)
            /\ Advance(s, [s EXCEPT !.pc = IF s.kind \in AutoKinds THEN "wrote" ELSE "statsGet"])
            /\ closeWrites' = IF closeWrites \in {0, 1} THEN closeWrites + 1 ELSE closeWrites
       ELSE Leave(s, FALSE) /\ UNCHANGED progress
  /\ UNCHANGED stats

\* performAutoSave after updateProgress has answered
ProgressDone(s) ==
  /\ s.pc = "wrote"
  /\ Leave(s, TRUE)
  /\ UNCHANGED storeVars

\* getUserStats answers; it swallows every error and answers null
StatsGet(s) ==
  /\ s.pc = "statsGet"
  /\ \E ok \in BOOLEAN :
       saves' = Remove(s) (+) SetToBag({[s EXCEPT !.pc = "statsRead",
                                                  !.cur = IF ok THEN stats ELSE NoStats]})
  /\ UNCHANGED <<isOpen, autoSaveTimeout, timers, saving, lastSavedBlocks, lastSavedCompleted,
                 loading, loads, blocks, completed, autoSaveStatus, statusTimers>>
  /\ UNCHANGED <<editedInFlight, closeWrites, flushes, credited, failed>>
  /\ UNCHANGED <<timerVars, parentVars, storeVars, startVars, authVars>>

\* updateUserStats: the select of the existing row answers
StatsRead(s) ==
  /\ s.pc = "statsRead"
  /\ \E ok \in BOOLEAN :
       IF ok THEN Advance(s, [s EXCEPT !.pc = "statsWrite", !.sexisting = stats])
             ELSE Leave(s, FALSE)
  /\ UNCHANGED <<storeVars, closeWrites>>

\* statsUpdate of autoSaveProgress (flush) and of handleSave (manual)
StatsUpdate(s) ==
  IF s.kind = "flush"
  THEN [total_study_time |-> s.cur.total_study_time + s.delta,
        current_streak   |-> IF s.cur.last_study_date # Today
                             THEN s.cur.current_streak + 1 ELSE s.cur.current_streak,
        last_study_date  |-> Today]
  ELSE [total_study_time |-> s.cur.total_study_time,
        current_streak   |-> s.cur.current_streak,
        last_study_date  |-> s.cur.last_study_date]

\* statsData of updateUserStats
StatsData(updates, existing) ==
  [exists |-> TRUE,
   total_study_time |-> OrNum(updates.total_study_time, existing.total_study_time),
   current_streak   |-> OrNum(updates.current_streak, existing.current_streak),
   last_study_date  |-> OrNum(updates.last_study_date, existing.last_study_date)]

\* updateUserStats: the update or insert is applied (UNIQUE(user_id))
StatsWrite(s) ==
  /\ s.pc = "statsWrite"
  /\ \E ok \in BOOLEAN :
       IF ok /\ (s.sexisting.exists \/ ~stats.exists)
       THEN /\ stats' = StatsData(StatsUpdate(s), s.sexisting)
            /\ Advance(s, [s EXCEPT !.pc = "done"])
       ELSE Leave(s, FALSE) /\ UNCHANGED stats
  /\ UNCHANGED <<progress, closeWrites>>

\* autoSaveProgress / handleSave after updateUserStats has answered
StatsDone(s) ==
  /\ s.pc = "done"
  /\ Leave(s, TRUE)
  /\ UNCHANGED storeVars

\* ------------------------------------------------- debounce, close, manual save
\* the debounce timer fires: performAutoSave of the render that set the timer
TimerFire(cap) ==
  /\ autoSaveTimeout.set
  /\ IF HasChanges(autoSaveTimeout.blocks, autoSaveTimeout.completed,
                   lastSavedBlocks, lastSavedCompleted)
     THEN StartSave(cap, "debounce", autoSaveTimeout.blocks, autoSaveTimeout.completed, 0)
     ELSE UNCHANGED <<saves, autoSaveStatus>>
  /\ autoSaveTimeout' = NoClosure
  /\ timers' = timers - 1
  /\ UNCHANGED <<isOpen, saving, statusTimers, editedInFlight, closeWrites, flushes, credited,
                 failed>>
  /\ UNCHANGED <<surfaceVars, timerVars, storeVars, parentVars, startVars, authVars>>

\* handleClose (Cancel button, Escape, click outside the dialog)
HandleClose(cap) ==
  /\ isOpen
  /\ IF HasChanges(blocks, completed, lastSavedBlocks, lastSavedCompleted)
     THEN /\ StartSave(cap, "close", blocks, completed, 0)
          /\ closeWrites' = IF closeWrites < 0 THEN 0 ELSE closeWrites
          /\ UNCHANGED <<isOpen, autoSaveTimeout, timers>>
     ELSE /\ OnClose
          /\ UNCHANGED <<saves, autoSaveStatus, closeWrites>>
  /\ UNCHANGED <<saving, statusTimers, editedInFlight, flushes, credited, failed>>
  /\ UNCHANGED <<surfaceVars, timerVars, storeVars, parentVars, startVars, authVars>>

\* handleSave ("Save Progress" button, disabled while saving)
HandleSave(cap) ==
  /\ isOpen
  /\ ~saving
  /\ saving' = TRUE
  /\ StartSave(cap, "manual", blocks, completed, 0)
  /\ UNCHANGED <<isOpen, autoSaveTimeout, timers, statusTimers, editedInFlight, closeWrites,
                 flushes, credited, failed>>
  /\ UNCHANGED <<surfaceVars, timerVars, storeVars, parentVars, startVars, authVars>>

\* a status-revert timeout of performAutoSave fires: setAutoSaveStatus("idle")
StatusRevert ==
  /\ statusTimers > 0
  /\ autoSaveStatus' = "idle"
  /\ statusTimers' = statusTimers - 1
  /\ UNCHANGED <<isOpen, saving, saves, autoSaveTimeout, timers>>
  /\ UNCHANGED histVars
  /\ UNCHANGED <<surfaceVars, timerVars, storeVars, parentVars, startVars, authVars>>

\* ------------------------------------------------------------ session timer
TimerFrame ==
  /\ UNCHANGED <<isOpen, saving, autoSaveTimeout, timers, statusTimers, failed, editedInFlight,
                 closeWrites>>
  /\ UNCHANGED <<surfaceVars, storeVars, parentVars, startVars, authVars>>

NoFlush == UNCHANGED <<saves, autoSaveStatus, flushes, credited>>

\* startPomodoro; the timer effect then creates the interval, whose callback
\* closes over the autoSaveProgress of this render
StartPomodoro ==
  /\ EditorShown
  /\ ~isRunning
  /\ isRunning' = TRUE
  /\ intervalClosure' = Closure(blocks, completed)
  /\ UNCHANGED <<pomodoroTime, isBreak, workMinutes, breakMinutes, studyTime, completedSessions>>
  /\ NoFlush /\ TimerFrame

PausePomodoro ==
  /\ EditorShown
  /\ isRunning
  /\ isRunning' = FALSE
  /\ intervalClosure' = NoClosure
  /\ UNCHANGED <<pomodoroTime, isBreak, workMinutes, breakMinutes, studyTime, completedSessions>>
  /\ NoFlush /\ TimerFrame

\* resetPomodoro without its setIsBreak(false)
ResetPomodoroKeepsPhase ==
  /\ EditorShown
  /\ isRunning' = FALSE
  /\ isBreak' = isBreak
  /\ pomodoroTime' = PhaseSeconds(workMinutes)
  /\ intervalClosure' = NoClosure
  /\ UNCHANGED <<workMinutes, breakMinutes, studyTime, completedSessions>>
  /\ NoFlush /\ TimerFrame

ResetPomodoro ==
  /\ EditorShown
  /\ isRunning' = FALSE
  /\ isBreak' = FALSE
  /\ pomodoroTime' = PhaseSeconds(workMinutes)
  /\ intervalClosure' = NoClosure
  /\ UNCHANGED <<workMinutes, breakMinutes, studyTime, completedSessions>>
  /\ NoFlush /\ TimerFrame

\* the Pomodoro effect after a change of workMinutes or breakMinutes, which are
\* among its dependencies: a running interval is replaced by one whose callback
\* closes over the new render
IntervalRenewed ==
  intervalClosure' = IF isRunning THEN Closure(blocks, completed) ELSE intervalClosure

\* the work-minutes handler setting the countdown in either phase
WorkMinutesChangeAnyPhase(n) ==
  /\ workMinutes' = n
  /\ pomodoroTime' = IF ~isRunning THEN PhaseSeconds(n) ELSE pomodoroTime
  /\ IntervalRenewed
  /\ UNCHANGED <<isRunning, isBreak, breakMinutes, studyTime, completedSessions>>
  /\ NoFlush /\ TimerFrame

\* the onChange handler of the work-minutes input
WorkMinutesChange(n) ==
  /\ workMinutes' = n
  /\ pomodoroTime' = IF ~isRunning /\ ~isBreak THEN PhaseSeconds(n) ELSE pomodoroTime
  /\ IntervalRenewed
  /\ UNCHANGED <<isRunning, isBreak, breakMinutes, studyTime, completedSessions>>
  /\ NoFlush /\ TimerFrame

\* the onChange handler of the break-minutes input
BreakMinutesChange(n) ==
  /\ breakMinutes' = n
  /\ pomodoroTime' = IF ~isRunning /\ isBreak THEN PhaseSeconds(n) ELSE pomodoroTime
  /\ IntervalRenewed
  /\ UNCHANGED <<isRunning, isBreak, workMinutes, studyTime, completedSessions>>
  /\ NoFlush /\ TimerFrame

\* the work-minutes input of TopicFocus (disabled while running)
SetWorkMinutes ==
  /\ EditorShown
  /\ ~isRunning
  /\ \E n \in MinuteChoices : WorkMinutesChange(n)

\* the break-minutes input of TopicFocus (disabled while running)
SetBreakMinutes ==
  /\ EditorShown
  /\ ~isRunning
  /\ \E n \in MinuteChoices : BreakMinutesChange(n)

\* the onChange handlers called by a caller that does not disable its inputs
\* while running
RequestWorkMinutes ==
  /\ EditorShown
  /\ \E n \in MinuteChoices : WorkMinutesChange(n)

RequestBreakMinutes ==
  /\ EditorShown
  /\ \E n \in MinuteChoices : BreakMinutesChange(n)

\* one firing of the interval whose break branch leaves out setIsBreak(false)
TickBreakKeepsPhase(cap) ==
  /\ isRunning
  /\ IF pomodoroTime <= 1
     THEN /\ isRunning' = FALSE
          /\ intervalClosure' = NoClosure
          /\ IF ~isBreak
             THEN /\ studyTime' = studyTime + workMinutes
                  \* autoSaveProgress(newStudyTime) up to its first await
                  /\ flushes < MaxFlushes
                  /\ StartSave(cap, "flush", intervalClosure.blocks, intervalClosure.completed,
                               workMinutes)
                  /\ flushes' = flushes + 1
                  /\ UNCHANGED credited
                  /\ completedSessions' = completedSessions + 1
                  /\ isBreak' = TRUE
                  /\ pomodoroTime' = PhaseSeconds(breakMinutes)
             ELSE /\ isBreak' = isBreak
                  /\ pomodoroTime' = PhaseSeconds(workMinutes)
                  /\ UNCHANGED <<studyTime, completedSessions>>
                  /\ NoFlush
     ELSE /\ pomodoroTime' = pomodoroTime - 1
          /\ UNCHANGED <<isRunning, isBreak, studyTime, completedSessions, intervalClosure>>
          /\ NoFlush
  /\ UNCHANGED <<workMinutes, breakMinutes>>
  /\ TimerFrame

\* one firing of the interval: the updater passed to setPomodoroTime
Tick(cap) ==
  /\ isRunning
  /\ IF pomodoroTime <= 1
     THEN /\ isRunning' = FALSE
          /\ intervalClosure' = NoClosure
          /\ IF ~isBreak
             THEN /\ studyTime' = studyTime + workMinutes
                  \* autoSaveProgress(newStudyTime) up to its first await
                  /\ flushes < MaxFlushes
                  /\ StartSave(cap, "flush", intervalClosure.blocks, intervalClosure.completed,
                               workMinutes)
                  /\ flushes' = flushes + 1
                  /\ UNCHANGED credited
                  /\ completedSessions' = completedSessions + 1
                  /\ isBreak' = TRUE
                  /\ pomodoroTime' = PhaseSeconds(breakMinutes)
             ELSE /\ isBreak' = FALSE
                  /\ pomodoroTime' = PhaseSeconds(workMinutes)
                  /\ UNCHANGED <<studyTime, completedSessions>>
                  /\ NoFlush
     ELSE /\ pomodoroTime' = pomodoroTime - 1
          /\ UNCHANGED <<isRunning, isBreak, studyTime, completedSessions, intervalClosure>>
          /\ NoFlush
  /\ UNCHANGED <<workMinutes, breakMinutes>>
  /\ TimerFrame

\* the interval fires again and again, nothing else happening in between,
\* until MaxCountdown seconds remain
TickRun ==
  /\ isRunning
  /\ pomodoroTime > MaxCountdown
  /\ pomodoroTime' = MaxCountdown
  /\ UNCHANGED <<isRunning, isBreak, workMinutes, breakMinutes, studyTime, completedSessions,
                 intervalClosure>>
  /\ NoFlush /\ TimerFrame

\* ------------------------------------------------------------ specifications
\* one session of the autosave coordinator, from the first click on the topic:
\* document edits, debounce timer, close
Next ==
  \/ (blocks = <<>> /\ OpenTopic)
  \/ LoadReturn
  \/ UpdateBlock
  \/ ToggleCompleted
  \/ TimerFire(MaxInFlight)
  \/ HandleClose(MaxInFlight)
  \/ \E s \in BagToSet(saves) : ReadStep(s)
  \/ \E s \in BagToSet(saves) : WriteStep(s)
  \/ \E s \in BagToSet(saves) : ProgressDone(s)
  \/ StatusRevert

Spec == Init /\ [][Next]_vars

\* the same session with saves overlapping
NextOverlap ==
  \/ (blocks = <<>> /\ OpenTopic)
  \/ LoadReturn
  \/ UpdateBlock
  \/ ToggleCompleted
  \/ TimerFire(MaxOverlap)
  \/ HandleClose(MaxOverlap)
  \/ \E s \in BagToSet(saves) : ReadStep(s)
  \/ \E s \in BagToSet(saves) : WriteStep(s)
  \/ \E s \in BagToSet(saves) : ProgressDone(s)
  \/ StatusRevert

SpecOverlap == Init /\ [][NextOverlap]_vars

\* one session of the session timer: edits, the controls and the countdown up
\* to the start of the work-completion flush
NextTick ==
  \/ (blocks = <<>> /\ OpenTopic)
  \/ LoadReturn
  \/ UpdateBlock
  \/ ToggleCompleted
  \/ StartPomodoro
  \/ PausePomodoro
  \/ ResetPomodoro
  \/ SetWorkMinutes
  \/ SetBreakMinutes
  \/ (pomodoroTime <= MaxCountdown /\ Tick(MaxInFlight))
  \/ TickRun

SpecTick == Init /\ [][NextTick]_vars

\* one session of the session timer with the work-completion flush and its
\* statistics update carried through the gateway
NextTimer ==
  \/ (blocks = <<>> /\ OpenTopic)
  \/ LoadReturn
  \/ ParentRefreshReturn
  \/ StartPomodoro
  \/ PausePomodoro
  \/ ResetPomodoro
  \/ SetWorkMinutes
  \/ SetBreakMinutes
  \/ (pomodoroTime <= MaxCountdown /\ Tick(MaxInFlight))
  \/ TickRun
  \/ \E s \in BagToSet(saves) : ReadStep(s)
  \/ \E s \in BagToSet(saves) : WriteStep(s)
  \/ \E s \in BagToSet(saves) : StatsGet(s)
  \/ \E s \in BagToSet(saves) : StatsRead(s)
  \/ \E s \in BagToSet(saves) : StatsWrite(s)
  \/ \E s \in BagToSet(saves) : StatsDone(s)

SpecTimer == InitSameDay /\ [][NextTimer]_vars

\* one session in which the debounce save and the work-completion flush meet
NextFlush ==
  \/ (blocks = <<>> /\ OpenTopic)
  \/ LoadReturn
  \/ ParentRefreshReturn
  \/ UpdateBlock
  \/ TimerFire(MaxOverlap)
  \/ StartPomodoro
  \/ (pomodoroTime <= MaxCountdown /\ Tick(MaxOverlap))
  \/ TickRun
  \/ \E s \in BagToSet(saves) : ReadStep(s)
  \/ \E s \in BagToSet(saves) : WriteStep(s)
  \/ \E s \in BagToSet(saves) : ProgressDone(s)
  \/ \E s \in BagToSet(saves) : StatsGet(s)
  \/ \E s \in BagToSet(saves) : StatsRead(s)
  \/ \E s \in BagToSet(saves) : StatsWrite(s)
  \/ \E s \in BagToSet(saves) : StatsDone(s)
  \/ StatusRevert

SpecFlush == Init /\ [][NextFlush]_vars

\* one session of the block editor: the four editing operations on the loaded
\* Document
NextEdit ==
  \/ (blocks = <<>> /\ OpenTopic)
  \/ LoadReturn
  \/ UpdateBlock
  \/ ChangeBlockType
  \/ AddNewBlock
  \/ DeleteBlock

SpecEdit == Init /\ [][NextEdit]_vars

\* the block editor of one session with the handle of an inserted block drawn
\* at random
NextIds ==
  \/ (blocks = <<>> /\ OpenTopic)
  \/ LoadReturn
  \/ UpdateBlock
  \/ ChangeBlockType
  \/ AddNewBlockAnyId
  \/ DeleteBlock

SpecIds == Init /\ [][NextIds]_vars

\* the stored notes through the codec: loaded (markdownToBlocks), written back
\* unedited by a manual save (blocksToMarkdown), and loaded again when the topic
\* is opened the next time
NextCodec ==
  \/ OpenTopic
  \/ LoadReturn
  \/ HandleSave(MaxInFlight)
  \/ \E s \in BagToSet(saves) : ReadStep(s)
  \/ \E s \in BagToSet(saves) : WriteStep(s)
  \/ \E s \in BagToSet(saves) : StatsGet(s)
  \/ \E s \in BagToSet(saves) : StatsRead(s)
  \/ \E s \in BagToSet(saves) : StatsWrite(s)
  \/ \E s \in BagToSet(saves) : StatsDone(s)

SpecCodec == InitCodec /\ [][NextCodec]_vars

\* one session of the session timer that the user may close at any moment,
\* with the work-completion flush carried through the gateway
NextClose ==
  \/ (blocks = <<>> /\ OpenTopic)
  \/ LoadReturn
  \/ ParentRefreshReturn
  \/ StartPomodoro
  \/ PausePomodoro
  \/ HandleClose(MaxInFlight)
  \/ (pomodoroTime <= MaxCountdown /\ Tick(MaxInFlight))
  \/ TickRun
  \/ \E s \in BagToSet(saves) : ReadStep(s)
  \/ \E s \in BagToSet(saves) : WriteStep(s)
  \/ \E s \in BagToSet(saves) : StatsGet(s)
  \/ \E s \in BagToSet(saves) : StatsRead(s)
  \/ \E s \in BagToSet(saves) : StatsWrite(s)
  \/ \E s \in BagToSet(saves) : StatsDone(s)

SpecClose == Init /\ [][NextClose]_vars

\* one session of the session timer in which the minutes handlers are called
\* whether or not the timer is running
NextMinutes ==
  \/ (blocks = <<>> /\ OpenTopic)
  \/ LoadReturn
  \/ UpdateBlock
  \/ StartPomodoro
  \/ PausePomodoro
  \/ ResetPomodoro
  \/ RequestWorkMinutes
  \/ RequestBreakMinutes
  \/ (pomodoroTime <= MaxCountdown /\ Tick(MaxInFlight))
  \/ TickRun

SpecMinutes == Init /\ [][NextMinutes]_vars

\* one session with every save path: debounce, close, manual save and
\* work-completion flush, one save at a time
NextSave ==
  \/ (blocks = <<>> /\ OpenTopic)
  \/ LoadReturn
  \/ ParentRefreshReturn
  \/ UpdateBlock
  \/ TimerFire(MaxInFlight)
  \/ HandleClose(MaxInFlight)
  \/ HandleSave(MaxInFlight)
  \/ StartPomodoro
  \/ (pomodoroTime <= MaxCountdown /\ Tick(MaxInFlight))
  \/ TickRun
  \/ \E s \in BagToSet(saves) : ReadStep(s)
  \/ \E s \in BagToSet(saves) : WriteStep(s)
  \/ \E s \in BagToSet(saves) : ProgressDone(s)
  \/ \E s \in BagToSet(saves) : StatsGet(s)
  \/ \E s \in BagToSet(saves) : StatsRead(s)
  \/ \E s \in BagToSet(saves) : StatsWrite(s)
  \/ \E s \in BagToSet(saves) : StatsDone(s)
  \/ StatusRevert

SpecSave == Init /\ [][NextSave]_vars

\* one session in which the Save button is pressed while the session timer
\* runs: the manual save and the work-completion flush may be in flight together
NextSaveDuringTimer ==
  \/ (blocks = <<>> /\ OpenTopic)
  \/ LoadReturn
  \/ HandleSave(MaxOverlap)
  \/ StartPomodoro
  \/ (pomodoroTime <= MaxCountdown /\ Tick(MaxOverlap))
  \/ TickRun
  \/ \E s \in BagToSet(saves) : ReadStep(s)
  \/ \E s \in BagToSet(saves) : WriteStep(s)
  \/ \E s \in BagToSet(saves) : StatsGet(s)
  \/ \E s \in BagToSet(saves) : StatsRead(s)
  \/ \E s \in BagToSet(saves) : StatsWrite(s)
  \/ \E s \in BagToSet(saves) : StatsDone(s)

SpecSaveDuringTimer == Init /\ [][NextSaveDuringTimer]_vars

\* one session with every save path in which the session of the user may end
NextAuth ==
  \/ (blocks = <<>> /\ OpenTopic)
  \/ LoadReturn
  \/ ParentRefreshReturn
  \/ UpdateBlock
  \/ TimerFire(MaxInFlight)
  \/ HandleClose(MaxInFlight)
  \/ HandleSave(MaxInFlight)
  \/ StartPomodoro
  \/ (pomodoroTime <= MaxCountdown /\ Tick(MaxInFlight))
  \/ TickRun
  \/ SessionExpires
  \/ \E s \in BagToSet(saves) : ReadStep(s)
  \/ \E s \in BagToSet(saves) : WriteStep(s)
  \/ \E s \in BagToSet(saves) : ProgressDone(s)
  \/ \E s \in BagToSet(saves) : StatsGet(s)
  \/ \E s \in BagToSet(saves) : StatsRead(s)
  \/ \E s \in BagToSet(saves) : StatsWrite(s)
  \/ \E s \in BagToSet(saves) : StatsDone(s)
  \/ StatusRevert

SpecAuth == Init /\ [][NextAuth]_vars

\* sessions one after the other: the topic is opened again after a close,
\* with the Document and the snapshot the session before has left in memory
NextReopen ==
  \/ OpenTopic
  \/ LoadReturn
  \/ UpdateBlock
  \/ TimerFire(MaxInFlight)
  \/ HandleClose(MaxInFlight)
  \/ \E s \in BagToSet(saves) : ReadStep(s)
  \/ \E s \in BagToSet(saves) : WriteStep(s)
  \/ \E s \in BagToSet(saves) : ProgressDone(s)
  \/ StatusRevert

SpecReopen == Init /\ [][NextReopen]_vars

\* ------------------------------------------------------------------ claims
\* the in-memory (Document, completed) pair equals the Save snapshot
Clean == blocks = lastSavedBlocks /\ completed = lastSavedCompleted

\* the save has passed the write of its user_progress row
PastWrite(s) == s.pc \in {"wrote", "statsGet", "statsRead", "statsWrite", "done"}

\* the save s has begun in this step
Begun(s) == s.pc = "read" /\ CopiesIn(s, saves') = CopiesIn(s, saves) + 1

\* the tick that brings a running work phase to zero
WorkCompletion == Tick(MaxInFlight) /\ ~isBreak /\ pomodoroTime <= 1

\* the tick that brings a running break phase to zero
BreakCompletion == Tick(MaxInFlight) /\ isBreak /\ pomodoroTime <= 1

\* C1: edits that leave the (Document, completed) pair equal to the Save
\* snapshot cause no write: an edit after which the pair equals the snapshot
\* leaves no debounce timer pending, and a debounce timer that fires while the
\* pair equals the snapshot begins no save.
C1_NoWriteForNoOpEdits ==
  [][ /\ ((UpdateBlock \/ ToggleCompleted) /\ Clean') => ~autoSaveTimeout'.set
      /\ (TimerFire(MaxInFlight) /\ Clean) => saves' = saves ]_vars

\* C1 witness: a debounce save of an earlier edit is in flight, the user has
\* since reverted to the snapshot, and no timer is pending.
C1_Reverted ==
  /\ isOpen /\ ~loading /\ Clean /\ ~autoSaveTimeout.set
  /\ \E s \in BagToSet(saves) :
       s.kind = "debounce" /\ (s.blocks # blocks \/ s.completed # completed)

\* C2: between a close request with unsaved changes and the onClose call
\* exactly one write of the user_progress row is issued: when close has been
\* requested once on the loaded surface, and its save has written and is about
\* to return, that write is the only one since the request.
C2_OneWriteBeforeClose ==
  \A s \in BagToSet(saves) :
    ( /\ s.kind = "close" /\ s.pc = "wrote" /\ CopiesIn(s, saves) = 1
      /\ \A t \in BagToSet(saves) : t.kind = "close" => t = s
      /\ isOpen /\ ~loading /\ loads = <<>> )
    => closeWrites = 1

\* C3: a close request while the pair equals the snapshot begins no save and
\* closes the surface.
C3_CleanCloseSavesNothing ==
  [][ (HandleClose(MaxInFlight) /\ Clean) => (saves' = saves /\ ~isOpen') ]_vars

\* C3 witness: the surface has been closed after a debounce save had brought
\* the durable row up to date, no close request ever found unsaved changes, and
\* no save is in flight.
C3_ClosedClean ==
  /\ ~isOpen /\ loads = <<>> /\ blocks # <<>> /\ Clean
  /\ closeWrites = -1 /\ saves = EmptyBag /\ progress # progress0

\* C4: every save carries the notes and the completed flag of the in-memory
\* Document as it is when the save begins.
C4_SaveCarriesLiveDocument ==
  [][ \A s \in BagToSet(saves') :
        Begun(s) => /\ blocksToMarkdown(s.blocks) = blocksToMarkdown(blocks)
                    /\ s.completed = completed ]_vars

\* C5: an edit made while a save was in flight is persisted: once the surface
\* is open and loaded, that edit is the latest, no save has failed, and neither
\* a save nor a debounce timer nor a load is outstanding, the durable notes and
\* completed flag equal the in-memory state.
C5_LateEditPersisted ==
  ( /\ isOpen /\ ~loading /\ loads = <<>>
    /\ editedInFlight /\ ~failed
    /\ saves = EmptyBag /\ ~autoSaveTimeout.set )
  => ( /\ progress.exists
       /\ progress.notes = blocksToMarkdown(blocks)
       /\ progress.completed = completed )

\* C6: the tick that brings a running work phase to zero adds workMinutes to
\* studyTime and 1 to completedSessions, sets the phase to break, the
\* countdown to breakMinutes * 60 seconds and running to false.
C6_WorkCompletionTick ==
  [][ WorkCompletion =>
        /\ studyTime' = studyTime + workMinutes
        /\ completedSessions' = completedSessions + 1
        /\ isBreak' = TRUE
        /\ pomodoroTime' = breakMinutes * 60
        /\ isRunning' = FALSE ]_vars

\* C6 witness: a work phase configured to one minute has completed, with the
\* default break.
C6_Completed ==
  /\ workMinutes = 1 /\ breakMinutes = DefaultBreakMinutes
  /\ studyTime = 1 /\ completedSessions = 1
  /\ isBreak /\ ~isRunning /\ pomodoroTime = 300

\* C7: a work-phase completion begins exactly one flush in the tick itself,
\* whatever the snapshot is and without touching the debounce timer, and the
\* flush carries workMinutes as its study-time delta; a break-phase completion
\* begins no save.
C7_OneFlushPerWorkCompletion ==
  [][ /\ WorkCompletion =>
           /\ BagCardinality(saves') = BagCardinality(saves) + 1
           /\ \E s \in BagToSet(saves') :
                Begun(s) /\ s.kind = "flush" /\ s.delta = workMinutes
           /\ autoSaveTimeout' = autoSaveTimeout
      /\ BreakCompletion => saves' = saves ]_vars

\* C7 witness: a flush is in flight although the pair equals the snapshot and
\* no debounce timer was ever needed.
C7_FlushWhileClean ==
  /\ isOpen /\ ~loading /\ Clean /\ ~autoSaveTimeout.set /\ isBreak
  /\ \E s \in BagToSet(saves) : s.kind = "flush" /\ s.delta = workMinutes

\* C8: study time is never lost: once all saves have returned and none has
\* failed, the durable study_time is its value at the start plus the deltas of
\* the work-completion flushes.
C8_StudyTimeNotLost ==
  (saves = EmptyBag /\ ~failed) => progress.study_time = progress0.study_time + credited

\* C9: a debounce save and a work-completion flush that began from the same
\* in-memory pair converge: once both have written, and the pair is still the
\* one they began from, the durable notes and completed flag equal it.
C9_OverlapConverges ==
  \A s, t \in BagToSet(saves) :
    ( /\ Peers(s, t) /\ PastWrite(s) /\ PastWrite(t)
      /\ isOpen /\ blocks = s.liveBlocks /\ completed = s.liveCompleted )
    => ( /\ progress.notes = blocksToMarkdown(blocks)
         /\ progress.completed = completed )

\* C10: the statistics write of a work-completion flush makes total_study_time
\* the stored total plus the session's minutes, last_study_date today, and
\* current_streak the stored streak, plus 1 only if the stored last_study_date
\* is not today.
C10_StatsOnCompletion ==
  [][ \A s \in BagToSet(saves) :
        ( /\ s.kind = "flush" /\ StatsWrite(s)
          /\ BagCardinality(saves') = BagCardinality(saves) )
        => /\ stats'.total_study_time = stats.total_study_time + s.delta
           /\ stats'.last_study_date = Today
           /\ stats'.current_streak =
                IF stats.last_study_date # Today
                THEN stats.current_streak + 1 ELSE stats.current_streak ]_vars

C12_InsertAfter ==
  [][ \A i \in 1..Len(blocks) :
        SetBlocks(addNewBlock(blocks, blocks[i].id, "text", generateId(UsedIds)))
        => /\ Len(blocks') = Len(blocks) + 1
           /\ blocks'[i + 1].id = generateId(UsedIds)
           /\ blocks'[i + 1].id \notin IdsOf(blocks)
           /\ blocks'[i + 1].type = "text" /\ blocks'[i + 1].content = <<>>
           /\ \A j \in 1..Len(blocks) :
                LET k == IF j <= i THEN j ELSE j + 1
                IN  /\ blocks'[k].id = blocks[j].id
                    /\ blocks'[k].type = blocks[j].type
                    /\ blocks'[k].content = blocks[j].content ]_vars

\* C12 witness: a block has been inserted between two blocks.
C12_InsertedBetween ==
  /\ EditorShown /\ Len(blocks) = 3
  /\ blocks[1].id = 1 /\ blocks[2].id = 3 /\ blocks[3].id = 2

\* C13: the order value of the block at array position i is i: the order values
\* of the Document are the dense sequence 0..n-1.
C13_DenseOrder == \A i \in 1..Len(blocks) : blocks[i].order = i - 1

\* C13 witness: a Document that has seen an insertion in the middle and the
\* deletion of its first block.
C13_AfterInsertAndDelete ==
  /\ EditorShown /\ Len(blocks) = 2
  /\ blocks[1].id = 3 /\ blocks[2].id = 2

\* two Documents with the same sequence of block types and contents
SameShape(a, b) ==
  /\ Len(a) = Len(b)
  /\ \A i \in 1..Len(a) : a[i].type = b[i].type /\ a[i].content = b[i].content

\* C14: parsing a text, serializing the result and parsing again yields the
\* block types and contents of parsing once: a load of notes that are the
\* serialization of the unedited loaded Document yields a Document of the same
\* shape.
C14_ParseSerializeParse ==
  [][ (LoadReturn /\ blocks # <<>> /\ progress.notes = blocksToMarkdown(blocks))
      => SameShape(blocks', blocks) ]_vars

\* C14 witness: the topic is open again on notes that were written back from
\* the loaded Document and differ from the text stored at the start.
C14_LoadedAgain ==
  /\ EditorShown /\ saves = EmptyBag /\ progress.notes # progress0.notes
  /\ blocks = lastSavedBlocks /\ progress.notes = blocksToMarkdown(blocks)

\* C15: parsing the serialization of a Document that the editing operations
\* have produced gives a Document with the same number of blocks and the same
\* type and content at every position.
C15_SerializeParse ==
  (EditorShown /\ blocks # <<>>)
  => SameShape(markdownToBlocks(blocksToMarkdown(blocks), {}), blocks)

\* C16: parsing the empty text yields exactly one block, of type text, with
\* empty content and order 0.
C16_ParseEmpty ==
  [][ (LoadReturn /\ progress.notes = <<>>)
      => /\ Len(blocks') = 1
         /\ blocks'[1].type = "text"
         /\ blocks'[1].content = <<>>
         /\ blocks'[1].order = 0 ]_vars

\* C16 witness: the empty stored text has been loaded.
C16_EmptyLoaded == EditorShown /\ progress.notes = <<>> /\ Len(blocks) = 1

\* the length of the leading marker of a line, 0 when it has none
MarkerLen(l) ==
  IF StartsWith(l, <<"#", " ">>) THEN 2
  ELSE IF StartsWith(l, <<"#", "#", " ">>) THEN 3
  ELSE IF StartsWith(l, <<"#", "#", "#", " ">>) THEN 4
  ELSE IF StartsWith(l, <<"-", " ">>) THEN 2
  ELSE IF NumberedPrefix(l) > 0 THEN NumberedPrefix(l)
  ELSE IF StartsWith(l, <<"BT", "BT", "BT">>) THEN 3
  ELSE 0

\* the block type that the leading marker of a line stands for
MarkerType(l) ==
  IF StartsWith(l, <<"#", " ">>) THEN "heading1"
  ELSE IF StartsWith(l, <<"#", "#", " ">>) THEN "heading2"
  ELSE IF StartsWith(l, <<"#", "#", "#", " ">>) THEN "heading3"
  ELSE IF StartsWith(l, <<"-", " ">>) THEN "bullet"
  ELSE IF NumberedPrefix(l) > 0 THEN "numbered"
  ELSE IF StartsWith(l, <<"BT", "BT", "BT">>) THEN "code"
  ELSE "text"

\* a text made of marker lines: every line is non-empty and carries no
\* whitespace around marker and content
MadeOfMarkerLines(T) ==
  \A i \in 1..Len(Split(T)) : Split(T)[i] # <<>> /\ Trim(Split(T)[i]) = Split(T)[i]

\* one block per line, in line order, typed by the marker, the content being
\* the line without the marker
BlockPerLine(T, bs) ==
  /\ Len(bs) = Len(Split(T))
  /\ \A i \in 1..Len(bs) :
       /\ bs[i].order = i - 1
       /\ bs[i].type = MarkerType(Split(T)[i])
       /\ bs[i].content = Drop(Split(T)[i], MarkerLen(Split(T)[i]))

\* the line with the digits of a numbered-item marker replaced by 1
OrdinalOne(l) ==
  IF MarkerType(l) = "numbered" THEN <<"1", ".", " ">> \o Drop(l, MarkerLen(l)) ELSE l

OrdinalsOne(T) == Join([i \in 1..Len(Split(T)) |-> OrdinalOne(Split(T)[i])])

\* the save s, which carries the parsed Document of the stored text, writes the
\* user_progress row in this step
WrittenBack(s) ==
  /\ WriteStep(s) /\ BagCardinality(saves') = BagCardinality(saves)
  /\ BlockPerLine(progress.notes, s.blocks)

C18_NoTickAfterClose ==
  [][ (~isOpen /\ ~isOpen')
      => /\ UNCHANGED <<pomodoroTime, isBreak, studyTime, completedSessions>>
         /\ flushes' = flushes ]_vars

\* C19: at any time at most one save is in flight: no save begins while
\* another save of the surface has not yet returned.
C19_OneSaveInFlight == BagCardinality(saves) <= 1

\* C20: at most one debounce timer is pending at any time, and it is the one
\* the effect started last: a burst of changes leaves one timer, hence at most
\* one debounce-triggered save.
C20_OneTimerPending ==
  /\ timers <= 1
  /\ (timers = 1) = autoSaveTimeout.set

\* C20 witness: a burst of two changes (a block and the completed flag) with
\* no save begun since the load, and one timer pending.
C20_BurstOneTimer ==
  /\ EditorShown /\ saves = EmptyBag /\ progress = progress0 /\ ~failed
  /\ blocks # lastSavedBlocks /\ completed # lastSavedCompleted
  /\ timers = 1

\* one of the user's editing operations: updateBlock, addNewBlock, deleteBlock,
\* changeBlockType, the completion checkbox
EditingOperation ==
  UpdateBlock \/ AddNewBlock \/ DeleteBlock \/ ChangeBlockType \/ ToggleCompleted

\* C21: while the surface stays open and a load has finished, the text of the
\* Document and the completion flag change only through the user's editing
\* operations: no save, flush or progress refresh of the parent replaces them
\* with what the durable store holds.
C21_OnlyEditsChangeDocument ==
  [][ ( /\ isOpen /\ isOpen' /\ blocks # <<>>
        /\ \/ blocksToMarkdown(blocks') # blocksToMarkdown(blocks)
           \/ completed' # completed )
      => EditingOperation ]_vars

\* C22: between an open and the following close the session state is not
\* reset: studyTime and completedSessions never decrease, and the break phase
\* set by a work completion ends only by the completion of the break or by
\* resetPomodoro.
C22_NoResetWhileOpen ==
  [][ (isOpen /\ isOpen')
      => /\ studyTime' >= studyTime
         /\ completedSessions' >= completedSessions
         /\ (isBreak /\ ~isBreak') => (BreakCompletion \/ ResetPomodoro) ]_vars

\* C23: unsaved changes are never left with nothing scheduled to persist them:
\* when the surface is open and loaded, the (Document, completed) pair differs
\* from the Save snapshot and no save has failed, a debounce timer is pending
\* or a save is in flight.
C23_UnsavedIsScheduled ==
  (EditorShown /\ loads = <<>> /\ ~Clean /\ ~failed)
  => (autoSaveTimeout.set \/ saves # EmptyBag)

\* C24: whenever no save is in flight (the Document has been loaded and no
\* save has failed), the Save snapshot is the pair last written to the durable
\* store: the serialization of the snapshot's Document is the durable notes and
\* the snapshot's completion flag is the durable completed flag.
C24_SnapshotIsDurable ==
  (saves = EmptyBag /\ loads = <<>> /\ lastSavedBlocks # <<>> /\ ~failed /\ progress.exists)
  => ( /\ blocksToMarkdown(lastSavedBlocks) = progress.notes
       /\ lastSavedCompleted = progress.completed )

\* the save s returns through its catch block in this step: a gateway call of
\* it has failed
FailedReturn(s) ==
  /\ ReadStep(s) \/ WriteStep(s) \/ StatsRead(s) \/ StatsWrite(s)
  /\ BagCardinality(saves') < BagCardinality(saves)

\* the save s returns through its success path in this step
SucceededReturn(s) == ProgressDone(s) \/ StatsDone(s)

\* C25: a save that fails at any step leaves the Save snapshot unchanged, so
\* that a pair that differed from the snapshot still differs from it; the
\* snapshot is assigned only by a load and by a save that succeeded.
C25_FailedSaveKeepsSnapshot ==
  [][ /\ \A s \in BagToSet(saves) :
           FailedReturn(s)
           => /\ UNCHANGED <<lastSavedBlocks, lastSavedCompleted>>
              /\ ~Clean => ~Clean'
      /\ (lastSavedBlocks' # lastSavedBlocks \/ lastSavedCompleted' # lastSavedCompleted)
         => (LoadReturn \/ \E s \in BagToSet(saves) : SucceededReturn(s)) ]_vars

\* C25 witness: a work-completion flush has failed after its progress write
\* (the statistics write failed): the durable notes are the Document, the
\* snapshot is still the loaded one and the pair still differs from it.
C25_FailedAfterWrite ==
  /\ EditorShown /\ saves = EmptyBag /\ failed /\ ~Clean
  /\ progress.notes = blocksToMarkdown(blocks)
  /\ progress.study_time = progress0.study_time + DefaultWorkMinutes
  /\ credited = 0

\* C26: a persistence error on any save path ends in the catch block of the
\* save: the autosave status becomes error, and neither the session timer nor
\* the Document is touched by it.
C26_ErrorsBecomeStatus ==
  [][ \A s \in BagToSet(saves) :
        FailedReturn(s)
        => /\ autoSaveStatus' = "error"
           /\ UNCHANGED <<blocks, completed, loading>>
           /\ UNCHANGED timerVars ]_vars

\* C27: the autosave status changes only along idle -> saving, saving -> saved,
\* saving -> error, saved -> idle, error -> idle and back into saving from saved
\* or error, so never from saving to idle; and it is saving while a
\* debounce-triggered or close-triggered save is in flight.
C27_StatusLine ==
  [][ /\ autoSaveStatus' # autoSaveStatus
         => <<autoSaveStatus, autoSaveStatus'>> \in
              { <<"idle", "saving">>, <<"saving", "saved">>, <<"saving", "error">>,
                <<"saved", "idle">>, <<"error", "idle">>,
                <<"saved", "saving">>, <<"error", "saving">> }
      /\ (\E s \in BagToSet(saves') : s.kind \in AutoKinds)
         => autoSaveStatus' = "saving" ]_vars

\* C28: the timers of the surface are cancelled when it closes: while the
\* surface is closed no timer callback changes the autosave status or begins
\* a save.
C28_NoTimerAfterClose ==
  [][ (~isOpen /\ ~isOpen')
      => /\ autoSaveStatus' = autoSaveStatus
         /\ \A s \in BagToSet(saves') : ~Begun(s) ]_vars

\* C29: a change of workMinutes or breakMinutes requested while the timer is
\* running is refused by the handlers themselves: workMinutes, breakMinutes and
\* pomodoroTime keep their values.
C29_RunningRejectsMinutes ==
  [][ (isRunning /\ (RequestWorkMinutes \/ RequestBreakMinutes))
      => UNCHANGED <<workMinutes, breakMinutes, pomodoroTime>> ]_vars

\* C30: the tick that brings a running break phase to zero sets the phase to
\* work, the countdown to workMinutes * 60 seconds and running to false, and
\* leaves studyTime and completedSessions unchanged.
C30_BreakCompletionTick ==
  [][ BreakCompletion =>
        /\ isBreak' = FALSE
        /\ pomodoroTime' = workMinutes * 60
        /\ isRunning' = FALSE
        /\ UNCHANGED <<studyTime, completedSessions>> ]_vars

\* C30 witness: the break that followed the first work session has run to
\* zero: one session is counted, the phase is work again and the timer stands
\* at the full work phase.
C30_BreakOver ==
  /\ isOpen /\ completedSessions = 1 /\ studyTime = workMinutes
  /\ ~isBreak /\ ~isRunning /\ pomodoroTime = workMinutes * 60

\* C31: startPomodoro and pausePomodoro change running only: the countdown,
\* the phase, the minutes, studyTime and completedSessions keep their values;
\* resetPomodoro sets the phase to work, running to false and the countdown to
\* workMinutes * 60 and leaves studyTime and completedSessions unchanged.
C31_TimerControls ==
  [][ /\ StartPomodoro
         => /\ isRunning'
            /\ UNCHANGED <<pomodoroTime, isBreak, workMinutes, breakMinutes, studyTime,
                           completedSessions>>
      /\ PausePomodoro
         => /\ ~isRunning'
            /\ UNCHANGED <<pomodoroTime, isBreak, workMinutes, breakMinutes, studyTime,
                           completedSessions>>
      /\ ResetPomodoro
         => /\ ~isBreak' /\ ~isRunning'
            /\ pomodoroTime' = workMinutes * 60
            /\ UNCHANGED <<workMinutes, breakMinutes, studyTime, completedSessions>> ]_vars

\* C31 witness: the timer was started in the break phase, has counted down and
\* is paused in the middle of a second: the countdown and the phase stand where
\* the pause found them.
C31_PausedInBreak ==
  /\ EditorShown /\ ~isRunning /\ isBreak /\ completedSessions = 1
  /\ pomodoroTime = MaxCountdown

\* C32: a change of workMinutes while not running sets the countdown to the
\* new workMinutes * 60 if the phase is work and leaves it unchanged if the
\* phase is break; a change of breakMinutes does so with the phases exchanged;
\* neither changes the phase, running or the other duration.
C32_MinutesRebaseCurrentPhase ==
  [][ /\ SetWorkMinutes
         => /\ pomodoroTime' = IF ~isBreak THEN workMinutes' * 60 ELSE pomodoroTime
            /\ UNCHANGED <<isBreak, isRunning, breakMinutes>>
      /\ SetBreakMinutes
         => /\ pomodoroTime' = IF isBreak THEN breakMinutes' * 60 ELSE pomodoroTime
            /\ UNCHANGED <<isBreak, isRunning, workMinutes>> ]_vars

\* C32 witness: in the break phase, not running, both durations have been
\* changed at the full default break: the countdown is the new break.
C32_BreakRebased ==
  /\ EditorShown /\ isBreak /\ ~isRunning /\ completedSessions = 1
  /\ workMinutes # DefaultWorkMinutes /\ breakMinutes # DefaultBreakMinutes
  /\ pomodoroTime = breakMinutes * 60

\* C33: the countdown is never negative, and it decreases only by a tick of
\* the running timer, by exactly 1: while running is false nothing counts it
\* down.
C33_CountdownNonNegative ==
  [][ /\ pomodoroTime' >= 0
      /\ (TickRun \/ Tick(MaxInFlight)) => isRunning
      /\ (Tick(MaxInFlight) /\ pomodoroTime > 1) => pomodoroTime' = pomodoroTime - 1 ]_vars

\* the save s passes the gateway call of this step without an error
Passed(s) == BagCardinality(saves') = BagCardinality(saves)

\* C34: a manual save carries the Document and the completed flag of the
\* moment the button is pressed and the study-time delta 0; its progress write
\* stores them; its statistics write leaves total_study_time, current_streak
\* and last_study_date as they are; when it returns without an error the
\* surface is closed, and when a step of it fails the surface is left as it is.
C34_ManualSave ==
  [][ /\ \A s \in BagToSet(saves') :
           (Begun(s) /\ s.kind = "manual")
           => s.blocks = blocks /\ s.completed = completed /\ s.delta = 0
      /\ \A s \in BagToSet(saves) :
           s.kind = "manual"
           => /\ (WriteStep(s) /\ Passed(s))
                 => /\ progress'.notes = blocksToMarkdown(s.blocks)
                    /\ progress'.completed = s.completed
              /\ (StatsWrite(s) /\ Passed(s))
                 => /\ stats'.total_study_time = stats.total_study_time
                    /\ stats'.current_streak = stats.current_streak
                    /\ stats'.last_study_date = stats.last_study_date
              /\ StatsDone(s) => ~isOpen'
              /\ FailedReturn(s) => isOpen' = isOpen ]_vars

\* C35: a save of any path that finds no authenticated user writes neither
\* the progress row nor the statistics row: it ends in its catch block at
\* getCurrentUser, and the step starts no other save and no timer in its place.
C35_NoWriteUnauthenticated ==
  [][ \A s \in BagToSet(saves) :
        (ReadStep(s) /\ ~currentUser)
        => /\ ~Passed(s) /\ saves' = Remove(s)
           /\ UNCHANGED <<progress, stats>>
           /\ failed'
           /\ timers' <= timers ]_vars

\* C35 witness: the session has ended, the debounce save of an edit has been
\* turned down, and the durable rows are those of the start.
C35_TurnedDown ==
  /\ ~currentUser /\ failed /\ saves = EmptyBag
  /\ EditorShown /\ ~Clean /\ autoSaveStatus = "error"
  /\ progress = progress0 /\ stats = stats0

\* C36: opening the surface and loading cause no write: the open and the
\* return of the load leave no debounce timer pending, whatever Document and
\* snapshot are in memory, and only an editing operation on the loaded surface
\* starts one; so no debounce save begins between the open and the first edit.
C36_OpenAndLoadWriteNothing ==
  [][ /\ (OpenTopic \/ LoadReturn) => (~autoSaveTimeout'.set /\ timers' = 0 /\ saves' = saves)
      /\ (autoSaveTimeout'.set /\ autoSaveTimeout' # autoSaveTimeout)
         => (EditingOperation /\ EditorShown) ]_vars

\* C36 witness: the topic has been opened again and is loading, the Document
\* in memory is the one a closed session has left, it differs from the
\* snapshot (its close save failed), and no timer is pending.
C36_ReopenedDirty ==
  /\ isOpen /\ loading /\ blocks # <<>> /\ ~Clean /\ failed
  /\ saves = EmptyBag /\ ~autoSaveTimeout.set /\ timers = 0

\* C37: after deleteBlock has removed a block from a Document of more than one
\* block, the block picked for focus is in the Document that is left: it is
\* the predecessor of the deleted block if there was one, and otherwise the
\* block at index 0 after the deletion.
C37_FocusAfterDelete ==
  [][ \A i \in 1..Len(blocks) :
        (Len(blocks) > 1 /\ SetBlocks(deleteBlock(blocks, blocks[i].id)))
        => /\ deleteFocusTarget(blocks, blocks[i].id).id \in IdsOf(blocks')
           /\ deleteFocusTarget(blocks, blocks[i].id).id =
                IF i > 1 THEN blocks[i - 1].id ELSE blocks'[1].id ]_vars

\* C38: updateBlock(id, content) changes the content of the block id and
\* nothing else, changeBlockType(id, newType) changes the type of the block id
\* and nothing else: the number of blocks, the ids, the order values and every
\* other block stay as they are; with an id that no block carries both return
\* the Document as it is.
C38_EditOneField ==
  [][ /\ \A i \in 1..Len(blocks), content \in Contents :
           SetBlocks(updateBlock(blocks, blocks[i].id, content))
           => /\ Len(blocks') = Len(blocks)
              /\ \A j \in 1..Len(blocks) :
                   blocks'[j] = IF j = i THEN [blocks[j] EXCEPT !.content = content]
                                ELSE blocks[j]
      /\ \A i \in 1..Len(blocks), type \in TypeChoices :
           SetBlocks(changeBlockType(blocks, blocks[i].id, type))
           => /\ Len(blocks') = Len(blocks)
              /\ \A j \in 1..Len(blocks) :
                   blocks'[j] = IF j = i THEN [blocks[j] EXCEPT !.type = type]
                                ELSE blocks[j]
      /\ \A content \in Contents :
           updateBlock(blocks, generateId(IdsOf(blocks)), content) = blocks
      /\ \A type \in TypeChoices :
           changeBlockType(blocks, generateId(IdsOf(blocks)), type) = blocks ]_vars

\* C38 witness: a Document of two blocks of which the first has been typed
\* into and then made a bullet, the second being as it was inserted.
C38_TypedThenRetyped ==
  /\ EditorShown /\ Len(blocks) = 2
  /\ blocks[1].type = "bullet" /\ blocks[1].content = <<"a">>
  /\ blocks[2].type = "text" /\ blocks[2].content = <<>>

\* C39: the ids of the blocks of the Document are pairwise distinct after
\* every step, updateBlock and changeBlockType leave the id of every block as
\* it was, deleteBlock brings in no id, and the id addNewBlock gives to the
\* inserted block is carried by no block the Document held before.
C39_IdsDistinct ==
  [][ /\ \A i, j \in 1..Len(blocks') : i # j => blocks'[i].id # blocks'[j].id
      /\ (UpdateBlock \/ ChangeBlockType)
         => /\ Len(blocks') = Len(blocks)
            /\ \A j \in 1..Len(blocks) : blocks'[j].id = blocks[j].id
      /\ DeleteBlock => IdsOf(blocks') \subseteq IdsOf(blocks)
      /\ AddNewBlockAnyId
         => \E j \in 1..Len(blocks') : blocks'[j].id \notin IdsOf(blocks) ]_vars

\* C40: a write applied a second time changes nothing: when updateProgress has
\* written the row, the same updateProgress request run again (it reads the
\* row as it is now and writes) leaves notes, completed and study_time as they
\* are, and when updateUserStats has written the statistics, the same
\* updateUserStats request run again leaves the statistics as they are.
C40_RetryChangesNothing ==
  [][ \A s \in BagToSet(saves) :
        /\ (WriteStep(s) /\ Passed(s))
           => ProgressData([s EXCEPT !.existing = progress']) = progress'
        /\ (StatsWrite(s) /\ Passed(s))
           => StatsData(StatsUpdate(s), stats') = stats' ]_vars

====
